---- MODULE Spec2Model ----
(***************************************************************************)
(* Model of scripts/titan_sweeper.py: the quadruplet sweep for             *)
(* Q(n) = n^47 - (n-1)^47.  One behaviour is one call of                   *)
(* sweep(n_start, n_end, output_file); one ScanRejected / ScanTested step  *)
(* is one iteration of the "for n in range(n_start, n_end + 1)" loop.      *)
(*                                                                         *)
(* A QuadrupletRecord (start_n, digits) is represented by start_n: digits  *)
(* is a function of start_n alone and no property below reads it.          *)
(* Q(n) % q is evaluated by reducing modulo q after every multiplication;  *)
(* the values of Q(n) themselves (47th powers) do not fit machine integers.*)
(***************************************************************************)
EXTENDS Integers, Sequences, FiniteSets, TLC

\* ---------------------------------------------------------------- bounds
\* n_start ranges over 1..MaxStart
MaxStart == 6
\* n_end ranges over n_start-2 .. n_start+MaxSpan (the first two are invalid
\* or empty ranges)
MaxSpan == 6

\* ------------------------------------------------------ program constants
\* the exponent of Q(n) = n^47 - (n-1)^47
Degree == 47
\* sieve primes are the primes in range(2, 1000)
SieveLimit == 1000

\* -------------------------------------------------------------- variables
VARIABLES
    n_start,       \* argument of sweep
    n_end,         \* argument of sweep
    output_file,   \* argument of sweep: TRUE when an output path is given
    pc,            \* position in sweep: "start", "scan", "save", "done", "io_error"
    sieve_tables,  \* dict q -> set of bad residues
    quads_found,   \* list of quadruplet starts, in emission order
    quints_found,  \* list of quintuplet starts, in emission order
    tested,        \* post-sieve counter
    primes_found,  \* probable primes counter
    window,        \* list of primality flags
    n,             \* loop variable: the next integer to process
    log,           \* history: one record per processed integer
    file,          \* lines written to the output artifact
    result         \* what the caller received: <<>> or <<quads, quints>>

vars == <<n_start, n_end, output_file, pc, sieve_tables, quads_found,
          quints_found, tested, primes_found, window, n, log, file, result>>

\* ------------------------------------------------------------ arithmetic
RECURSIVE PowMod(_, _, _)
\* b^e modulo q by square-and-multiply, reducing after each product
PowMod(b, e, q) ==
    IF e = 0 THEN 1 % q
    ELSE LET h == PowMod(b, e \div 2, q)
             sq == (h * h) % q
         IN  IF e % 2 = 0 THEN sq ELSE (sq * (b % q)) % q

\* Q(nn) % q for Q(nn) = nn^47 - (nn-1)^47; Python's % is non-negative for q > 0
QMod(nn, q) == (PowMod(nn, Degree, q) - PowMod(nn - 1, Degree, q)) % q

\* gmpy2.is_prime(p) for the small p of the sieve-prime comprehension
IsSmallPrime(p) == p >= 2 /\ \A d \in 2..(p - 1) : d * d > p \/ p % d # 0

\* [p for p in range(2, 1000) if gmpy2.is_prime(p)]
SievePrimes == {p \in 2..(SieveLimit - 1) : IsSmallPrime(p)}

\* a residue loop that records r when Q(r + 1), not Q(r), is divisible by q
build_sieve_table_shifted(q) == {r \in 0..(q - 1) : QMod(r + 1, q) = 0}

\* build_sieve_table(q): residues r in range(q) with Q(r) % q == 0
build_sieve_table(q) == {r \in 0..(q - 1) : QMod(r, q) = 0}

\* the dict filled by "for q in sieve_primes: sieve_tables[q] = ..."
BuiltTables == [q \in SievePrimes |-> build_sieve_table(q)]

\* ------------------------------------------------------------ pre-sieve
\* the pre-sieve applied to the residue of n + 1
sieved_out_next(nn) ==
    \E q \in DOMAIN sieve_tables : ((nn + 1) % q) \in sieve_tables[q]

\* the pre-sieve loop: some q has (n % q) in its bad residues
sieved_out(nn) == \E q \in DOMAIN sieve_tables : (nn % q) \in sieve_tables[q]

\* ------------------------------------------------------------ the oracle
\* is_prime(Q(nn)): the outcomes the 25-round probable-prime test can give.
\* Q(0) = Q(1) = 1 is not prime; otherwise the outcome is left open.
is_prime(nn) == IF nn \in {0, 1} THEN {FALSE} ELSE BOOLEAN

\* ------------------------------------------------------------ detection
\* a window pre-filled as if the three positions before n_start were hits
InitWindowTrue == <<TRUE, TRUE, TRUE>>

\* the window before the loop: flags of n_start-3 .. n_start-1
InitWindow == <<FALSE, FALSE, FALSE>>

\* a check of the last three flags only
IsQuadrupletShort(w) == Len(w) >= 3 /\ \A i \in (Len(w) - 2)..Len(w) : w[i]

\* len(window) >= 4 and all(window[-4:])
IsQuadruplet(w) == Len(w) >= 4 /\ \A i \in (Len(w) - 3)..Len(w) : w[i]

\* a look-back that reads window[-4] in place of window[-5]
IsQuintupletNear(w) == Len(w) >= 5 /\ w[Len(w) - 3]

\* len(window) >= 5 and window[-5]
IsQuintuplet(w) == Len(w) >= 5 /\ w[Len(w) - 4]

\* a start computed from the range start in place of the loop variable
start_n_fixed(nn) == n_start

\* start_n = n - 3
start_n(nn) == nn - 3

\* counting only the candidates the oracle calls composite
TestedAfterInverted(t, is_p) == IF is_p THEN t ELSE t + 1

\* tested += 1 on the oracle branch
TestedAfter(t, is_p) == t + 1

\* the oracle consulted for every integer, rejected or not
CallsOracleAlways(nn) == TRUE

\* the oracle branch is taken exactly when the pre-sieve did not reject
CallsOracle(nn) == ~sieved_out(nn)

\* -------------------------------------------------------------- actions
Init ==
    /\ n_start \in 1..MaxStart
    /\ n_end \in (n_start - 2)..(n_start + MaxSpan)
    /\ output_file \in BOOLEAN
    /\ pc = "start"
    /\ sieve_tables = <<>>
    /\ quads_found = <<>>
    /\ quints_found = <<>>
    /\ tested = 0
    /\ primes_found = 0
    /\ window = <<>>
    /\ n = n_start
    /\ log = <<>>
    /\ file = <<>>
    /\ result = <<>>

\* sweep, lines 61-76: build the tables, zero the counters, pre-fill the window
BuildTables ==
    /\ pc = "start"
    /\ sieve_tables' = BuiltTables
    /\ quads_found' = <<>>
    /\ quints_found' = <<>>
    /\ tested' = 0
    /\ primes_found' = 0
    /\ window' = InitWindow
    /\ n' = n_start
    /\ pc' = "scan"
    /\ UNCHANGED <<n_start, n_end, output_file, log, file, result>>

\* lines 95-108: append the flag, then the quadruplet and quintuplet checks
Detect(is_p) ==
    LET w == Append(window, is_p)
        quad == IsQuadruplet(w)
        quint == quad /\ IsQuintuplet(w)
    IN  /\ window' = w
        /\ quads_found' = IF quad THEN Append(quads_found, start_n(n))
                                  ELSE quads_found
        /\ quints_found' = IF quint THEN Append(quints_found, start_n(n) - 1)
                                    ELSE quints_found

\* one loop iteration in which the oracle branch is not taken (lines 86-87)
ScanRejected ==
    /\ pc = "scan"
    /\ n <= n_end
    /\ ~CallsOracle(n)
    /\ Detect(FALSE)
    /\ log' = Append(log, [n |-> n, sieved |-> sieved_out(n),
                           oracle |-> FALSE, is_p |-> FALSE])
    /\ n' = n + 1
    /\ UNCHANGED <<n_start, n_end, output_file, pc, sieve_tables, tested,
                   primes_found, file, result>>

\* one loop iteration in which Q(n) is computed and tested (lines 88-93)
ScanTested ==
    /\ pc = "scan"
    /\ n <= n_end
    /\ CallsOracle(n)
    /\ \E is_p \in is_prime(n) :
          /\ tested' = TestedAfter(tested, is_p)
          /\ primes_found' = IF is_p THEN primes_found + 1 ELSE primes_found
          /\ Detect(is_p)
          /\ log' = Append(log, [n |-> n, sieved |-> sieved_out(n),
                                 oracle |-> TRUE, is_p |-> is_p])
    /\ n' = n + 1
    /\ UNCHANGED <<n_start, n_end, output_file, pc, sieve_tables, file, result>>

\* the loop is exhausted; the report is printed (lines 118-128)
ScanDone ==
    /\ pc = "scan"
    /\ n > n_end
    /\ pc' = "save"
    /\ UNCHANGED <<n_start, n_end, output_file, sieve_tables, quads_found,
                   quints_found, tested, primes_found, window, n, log, file,
                   result>>

\* the lines of the output artifact: the header, then one row per quadruplet
FileLines == <<"starting_n,approx_digits">> \o quads_found

\* no output file was asked for; return (lines 131, 138)
ReturnNoFile ==
    /\ pc = "save"
    /\ ~output_file
    /\ result' = <<quads_found, quints_found>>
    /\ pc' = "done"
    /\ UNCHANGED <<n_start, n_end, output_file, sieve_tables, quads_found,
                   quints_found, tested, primes_found, window, n, log, file>>

\* the file is written in full; return (lines 131-138)
SaveAndReturn ==
    /\ pc = "save"
    /\ output_file
    /\ file' = FileLines
    /\ result' = <<quads_found, quints_found>>
    /\ pc' = "done"
    /\ UNCHANGED <<n_start, n_end, output_file, sieve_tables, quads_found,
                   quints_found, tested, primes_found, window, n, log>>

\* open() or a write raises OSError after k lines; the exception leaves
\* sweep, so line 138 is not reached and nothing is returned
SaveFails ==
    /\ pc = "save"
    /\ output_file
    /\ \E k \in 0..(Len(FileLines) - 1) : file' = SubSeq(FileLines, 1, k)
    /\ pc' = "io_error"
    /\ UNCHANGED <<n_start, n_end, output_file, sieve_tables, quads_found,
                   quints_found, tested, primes_found, window, n, log, result>>

Next ==
    \/ BuildTables
    \/ ScanRejected
    \/ ScanTested
    \/ ScanDone
    \/ ReturnNoFile
    \/ SaveAndReturn
    \/ SaveFails

Spec == Init /\ [][Next]_vars

\* ------------------------------------------------- reference evaluation
\* Q(a) = a^47 - (a-1)^47 = (a - (a-1)) * S_46(a, a-1), where
\* S_m(a, b) = SUM_{k=0..m} a^k b^(m-k).  GeoSum(a, b, m, q) is the triple
\* << S_m, a^(m+1), b^(m+1) >> modulo q, by the doubling identities
\*   S_(2k+1) = S_k * (a^(k+1) + b^(k+1))   and   S_(2k+2) = a * S_(2k+1) + b^(2k+2).
RECURSIVE GeoSum(_, _, _, _)
GeoSum(a, b, m, q) ==
    IF m = 0 THEN <<1 % q, a % q, b % q>>
    ELSE LET t == GeoSum(a, b, (m - 1) \div 2, q)
             odd == (t[1] * ((t[2] + t[3]) % q)) % q
             aa == (t[2] * t[2]) % q
             bb == (t[3] * t[3]) % q
         IN  IF m % 2 = 1
             THEN <<odd, aa, bb>>
             ELSE <<((((a % q) * odd) % q) + bb) % q,
                    ((a % q) * aa) % q, ((b % q) * bb) % q>>

\* Q(a) mod q, evaluated on a itself (not on a residue of a)
QRef(a, q) == GeoSum(a, a - 1, Degree - 1, q)[1]

\* for each prime q below the sieve limit, the r in [0, q) with q | Q(r)
ExpectedTables == [q \in SievePrimes |-> {r \in 0..(q - 1) : QRef(r, q) = 0}]

\* the integers a sweep of this model can scan
ScanDomain == 1..(MaxStart + MaxSpan)

\* for each scanned integer, the primes below the sieve limit dividing Q(n)
SmallFactors == [nn \in ScanDomain |-> {q \in SievePrimes : QRef(nn, q) = 0}]

\* ------------------------------------------------------------ properties
\* the set of values of a list
Starts(seq) == {seq[i] : i \in DOMAIN seq}

\* the outcome fed to the detector for integer m, as recorded in history lg
\* of a sweep starting at ns; positions before ns count as false
Outcome(lg, ns, m) == m >= ns /\ m - ns + 1 <= Len(lg) /\ lg[m - ns + 1].is_p

\* the outcomes of m-3 .. m are all true
FourTrue(lg, ns, m) == \A k \in 0..3 : Outcome(lg, ns, m - k)

\* a step that processes the integer n
Processes == pc = "scan" /\ n' = n + 1

\* C1: while processing n, a quadruplet with start n-3 is appended exactly
\* when the outcomes of n-3, n-2, n-1, n are all true (positions before
\* n_start being false), and otherwise nothing is appended; every emitted
\* start s has n_start <= s and s+3 <= n_end.
C1_QuadrupletIffFourTrue ==
    /\ [](\A s \in Starts(quads_found) : n_start <= s /\ s + 3 <= n_end)
    /\ [][Processes =>
            IF FourTrue(log', n_start, n)
            THEN quads_found' = Append(quads_found, n - 3)
            ELSE quads_found' = quads_found]_vars

C1_Witness ==
    /\ pc = "done"
    /\ Len(quads_found) >= 1
    /\ \E i \in 3..Len(log) : \* three trues without a fourth emitted nothing
          /\ \A k \in 0..2 : log[i - k].is_p
          /\ ~FourTrue(log, n_start, log[i].n)
          /\ log[i].n - 3 \notin Starts(quads_found)

\* C2: while processing n, a quintuplet with start n-4 is appended exactly
\* when a quadruplet was emitted in the same step and the outcome of n-4 is
\* true; a step that emits no quadruplet emits no quintuplet.
C2_QuintupletIffQuadAndFifth ==
    [][Processes =>
         /\ IF quads_found' # quads_found /\ Outcome(log', n_start, n - 4)
            THEN quints_found' = Append(quints_found, n - 4)
            ELSE quints_found' = quints_found
         /\ (quads_found' = quads_found => quints_found' = quints_found)]_vars

C2_Witness ==
    /\ Len(quints_found) >= 1
    /\ Len(quads_found) > Len(quints_found)

\* C3: every scanned n that the pre-sieve rejected has Q(n) divisible by a
\* modulus of the table; such an n is at least 2, so Q(n) >= 2^47 - 1
\* exceeds every modulus and is not prime.
C3_NoFalseRejection ==
    \A i \in DOMAIN log :
        log[i].sieved =>
            /\ \E q \in DOMAIN sieve_tables : q \in SmallFactors[log[i].n]
            /\ log[i].n >= 2

C3_Witness == \E i \in DOMAIN log : log[i].sieved /\ ~log[i].oracle

\* C4: the oracle is called only for integers that passed the pre-sieve; for
\* a rejected integer the flag fed to the window is false, the oracle is not
\* called and tested is not incremented (tested counts the oracle calls).
C4_OracleOnlyAfterPass ==
    /\ \A i \in DOMAIN log :
          /\ log[i].oracle => ~log[i].sieved
          /\ log[i].sieved =>
                ~log[i].oracle /\ ~log[i].is_p /\ window[i + 3] = FALSE
    /\ tested = Cardinality({i \in DOMAIN log : log[i].oracle})
    /\ tested = Cardinality({i \in DOMAIN log : ~log[i].sieved})

C4_Witness ==
    /\ \E i \in DOMAIN log : log[i].sieved
    /\ \E i \in DOMAIN log : log[i].oracle
    /\ tested < Len(log)

\* exactly five outcomes were fed, all true
FiveTrueFed == Len(log) = 5 /\ \A i \in DOMAIN log : log[i].is_p

\* C5 as stated: five trues emit one quadruplet and one quintuplet in total.
C5_OneQuadOneQuint ==
    FiveTrueFed => Len(quads_found) = 1 /\ Len(quints_found) = 1

\* C5 amended: five consecutive true outcomes from the initial state emit
\* exactly two quadruplets (at the fourth and at the fifth outcome) and
\* exactly one quintuplet (at the fifth).
C5_TwoQuadsOneQuint ==
    FiveTrueFed =>
        /\ quads_found = <<n_start, n_start + 1>>
        /\ quints_found = <<n_start>>

C5_Witness == FiveTrueFed /\ pc = "done"

\* C6: after the build, for every sieve prime q and every r, r is in
\* sieve_tables[q] iff 0 <= r < q and q divides Q(r); no table holds a
\* value outside [0, q).
C6_TableIsRootSet ==
    pc # "start" =>
        /\ DOMAIN sieve_tables = SievePrimes
        /\ \A q \in DOMAIN sieve_tables :
              /\ sieve_tables[q] = ExpectedTables[q]
              /\ \A r \in sieve_tables[q] : 0 <= r /\ r < q

C6_Witness ==
    /\ pc # "start"
    /\ \E q \in DOMAIN sieve_tables : sieve_tables[q] # {}
    /\ \E q \in DOMAIN sieve_tables : sieve_tables[q] = {}

\* C7 as stated: with n_end < n_start the sweep stops with a configuration
\* error before any sieve table is built and never completes normally.
C7_InvalidRangeFailsFast ==
    n_end < n_start => pc \in {"start", "config_error"} /\ sieve_tables = <<>>

\* a list of integers in which each entry exceeds the one before by >= 1
StrictlyIncreasing(seq) ==
    \A i \in 1..(Len(seq) - 1) : seq[i + 1] - seq[i] >= 1

\* old is a prefix of new and new has at most one more entry
GrowsByAtMostOne(old, new) ==
    /\ Len(new) \in {Len(old), Len(old) + 1}
    /\ SubSeq(new, 1, Len(old)) = old

\* C8: quadruplet starts are strictly increasing in emission order, so none
\* is emitted twice; each step appends at most one quadruplet and at most
\* one quintuplet and leaves the records already emitted as they are.
C8_StartsIncreaseAppendOnly ==
    /\ [](StrictlyIncreasing(quads_found)
          /\ Cardinality(Starts(quads_found)) = Len(quads_found))
    /\ [][/\ GrowsByAtMostOne(quads_found, quads_found')
          /\ GrowsByAtMostOne(quints_found, quints_found')]_vars

C8_Witness ==
    /\ pc = "done"
    /\ Len(quads_found) >= 3
    /\ Len(quints_found) >= 2

\* the number of integers in range(n_start, n_end + 1)
RangeCount == IF n_end < n_start THEN 0 ELSE n_end - n_start + 1

\* C9: tested is at most the number of integers scanned so far, which is at
\* most the number of integers of the range (n_end - n_start + 1 for
\* n_start <= n_end), and primes_found is at most tested.
C9_CountersBounded ==
    /\ tested <= Len(log)
    /\ Len(log) <= RangeCount
    /\ (n_start <= n_end => tested <= n_end - n_start + 1)
    /\ primes_found <= tested

C9_Witness ==
    /\ pc = "done"
    /\ primes_found >= 1
    /\ primes_found < tested
    /\ tested < RangeCount

\* C10 as stated: when the write of the output artifact fails, the caller
\* still holds the quadruplet and quintuplet records of the scan.
C10_RecordsSurviveWriteFailure ==
    pc = "io_error" => result = <<quads_found, quints_found>>

====
